---- MODULE Spec2Model ----
(***************************************************************************)
(* Stockholm bus line 1 countdown (src/main.py): the departure fetcher     *)
(* with its source fallback chain, the normaliser/grouper, the shared      *)
(* bus_data_cache, the websocket ConnectionManager and the periodic and    *)
(* manual refresh tasks, as asyncio coroutines whose atomic steps run from *)
(* one await to the next.                                                  *)
(***************************************************************************)
EXTENDS Integers, Sequences, FiniteSets, TLC

(***************************************************************************)
(* Bounds of the model.                                                    *)
(***************************************************************************)
\* longest provider payload (number of records in data["departures"])
MaxLen == 3
\* the wall clock advances from 0 to MaxClock and then stays
MaxClock == 1
\* number of websocket clients that may connect
NumWS == 2

(***************************************************************************)
(* Program constants.                                                      *)
(***************************************************************************)
\* SL_API_CONFIG["bus_line"]
bus_line == "1"
\* SL_API_CONFIG["departures_per_destination"]
departures_per_destination == 2
\* SL_API_CONFIG["target_destinations"]
target_destinations == <<"Fridhemsplan", "Stora Essingen">>
\* the literal 4 of "if len(final_departures) < 4"
MinDepartures == 4

\* Python's None, for an absent time
NoTime == 0
\* Python's None, for the error field
NoError == "None"
\* the error text of get_mock_data
MockError == "Using demonstration data - live API unavailable"
\* str(e) of an exception caught by update_bus_data
ExcText == "exception"
\* the default of dep.get("destination", ...)
Placeholder == "Okand destination"
\* a destination value of the provider that is not a JSON string
NonString == "#not-a-string"
\* a destination key that is missing from the provider record
Missing == "#missing"

Min(a, b) == IF a < b THEN a ELSE b

Range(s) == {s[i] : i \in DOMAIN s}

(***************************************************************************)
(* Strings: str.lower() and the substring test "a in b", tabulated over    *)
(* the destination names the model draws from.                             *)
(***************************************************************************)
DestinationNames ==
    {"Fridhemsplan", "STORA ESSINGEN", "Fridhemsplan via Stora Essingen"}

Lower(s) ==
    CASE s = "Fridhemsplan" -> "fridhemsplan"
      [] s = "Stora Essingen" -> "stora essingen"
      [] s = "STORA ESSINGEN" -> "stora essingen"
      [] s = "Fridhemsplan via Stora Essingen" -> "fridhemsplan via stora essingen"
      [] s = Placeholder -> "okand destination"
      [] OTHER -> s

IsSubstring(a, b) ==
    \/ a = b
    \/ <<a, b>> \in {<<"fridhemsplan", "fridhemsplan via stora essingen">>,
                     <<"stora essingen", "fridhemsplan via stora essingen">>}

(***************************************************************************)
(* Provider records.  kind = "dict" is a JSON object; kind = "scalar" is   *)
(* any other JSON value in the departures list.                            *)
(* Times are fixed-format ISO strings; the numbers 1, 2 stand for two of   *)
(* them in their lexicographic order, which is the order the code sorts    *)
(* by, and NoTime (0) for None, whose sort key "" is below every string.   *)
(***************************************************************************)
RawRecords ==
    {[kind |-> "dict", line |-> bus_line, destination |-> d,
      expected |-> e, planned |-> NoTime, direction |-> "1"] :
        d \in DestinationNames \cup {Missing}, e \in {NoTime, 1, 2}}
    \cup {[kind |-> "dict", line |-> bus_line, destination |-> "Fridhemsplan",
           expected |-> NoTime, planned |-> 2, direction |-> "1"],
          [kind |-> "dict", line |-> bus_line, destination |-> NonString,
           expected |-> 1, planned |-> NoTime, direction |-> "1"],
          [kind |-> "dict", line |-> "4", destination |-> "Fridhemsplan",
           expected |-> 1, planned |-> NoTime, direction |-> "1"],
          [kind |-> "scalar", line |-> "", destination |-> Missing,
           expected |-> NoTime, planned |-> NoTime, direction |-> ""]}

RECURSIVE SeqsUpTo(_, _)
SeqsUpTo(S, n) ==
    IF n = 0 THEN {<<>>}
    ELSE LET shorter == SeqsUpTo(S, n - 1)
         IN  shorter \cup {Append(s, x) : s \in {q \in shorter : Len(q) = n - 1}, x \in S}

Payloads == SeqsUpTo(RawRecords, MaxLen)

(***************************************************************************)
(* BusDataFetcher.process_departure_data and get_mock_data.                *)
(***************************************************************************)
\* dep.get("destination", "Okänd destination")
GetDestination(dep) ==
    IF dep.destination = Missing THEN Placeholder ELSE dep.destination

\* dep.get("expected") or dep.get("planned")
GetExpectedTime(dep) ==
    IF dep.expected # NoTime THEN dep.expected ELSE dep.planned

\* the departure dict built for the line-1 provider record at position i of
\* data["departures"]; the field id is the identity of the dict object, which
\* the lists of the result share, and is no key of the dict
Departure(dep, i) ==
    [line |-> dep.line,
     destination |-> GetDestination(dep),
     expected_time |-> GetExpectedTime(dep),
     direction |-> dep.direction,
     real_time |-> dep.expected # NoTime,
     id |-> i]

\* dict equality (==): every key has the same value
SameDict(x, y) ==
    /\ x.line = y.line
    /\ x.destination = y.destination
    /\ x.expected_time = y.expected_time
    /\ x.direction = y.direction
    /\ x.real_time = y.real_time

\* the loop over data["departures"]: the line-1 records, in provider order
AllDepartures(data) ==
    LET wanted == SelectSeq([i \in DOMAIN data |-> i],
                            LAMBDA i : data[i].line = bus_line)
    IN  [k \in DOMAIN wanted |-> Departure(data[wanted[k]], wanted[k])]

\* key=lambda x: x["expected_time"] or ""
SortKey(x) == x.expected_time

\* list.sort(key=...): stable, ascending by key
RECURSIVE SortDepartures(_)
SortDepartures(s) ==
    IF s = <<>> THEN <<>>
    ELSE LET front == SortDepartures(SubSeq(s, 1, Len(s) - 1))
             x == s[Len(s)]
             k == Cardinality({i \in DOMAIN front : SortKey(front[i]) <= SortKey(x)})
         IN  SubSeq(front, 1, k) \o <<x>> \o SubSeq(front, k + 1, Len(front))

\* target_dest.lower() in dep["destination"].lower()
MatchesDestination(target_dest, dep) ==
    IsSubstring(Lower(target_dest), Lower(dep.destination))

\* s[:n]
Take(s, n) == SubSeq(s, 1, Min(n, Len(s)))

\* variant of DestDepartures without the [:departures_per_destination] slice
DestDeparturesUncapped(all_departures, target_dest) ==
    SelectSeq(all_departures, LAMBDA dep : MatchesDestination(target_dest, dep))

\* dest_departures of one target destination
DestDepartures(all_departures, target_dest) ==
    Take(SelectSeq(all_departures, LAMBDA dep : MatchesDestination(target_dest, dep)),
         departures_per_destination)

\* departures_by_destination after the loop over target_destinations
GroupByDestination(all_departures) ==
    [target_dest \in Range(target_destinations) |->
        DestDepartures(all_departures, target_dest)]

\* variant of ConcatGroups that extends final_departures with the groups in
\* the reverse of target_destinations order
RECURSIVE ConcatGroupsReversed(_, _)
ConcatGroupsReversed(groups, i) ==
    IF i = 0 THEN <<>>
    ELSE groups[target_destinations[i]] \o ConcatGroupsReversed(groups, i - 1)

\* final_departures after the loop over target_destinations
RECURSIVE ConcatGroups(_, _)
ConcatGroups(groups, i) ==
    IF i = 0 THEN <<>>
    ELSE ConcatGroups(groups, i - 1) \o groups[target_destinations[i]]

\* the backfill: records not "in" final_departures (dict equality), capped
RemainingDepartures(all_departures, final_departures) ==
    Take(SelectSeq(all_departures,
                   LAMBDA dep : \A i \in DOMAIN final_departures :
                                   ~SameDict(dep, final_departures[i])),
         MinDepartures - Len(final_departures))

FinalDepartures(all_departures) ==
    LET capped == ConcatGroups(GroupByDestination(all_departures),
                               Len(target_destinations))
    IN  IF Len(capped) < MinDepartures
        THEN capped \o RemainingDepartures(all_departures, capped)
        ELSE capped

\* variant of mock_departures whose second Fridhemsplan departure is at
\* now + 12 minutes
mock_departures_shifted(now) ==
    << [line |-> "1", destination |-> "Fridhemsplan",
        expected_time |-> now + 4, direction |-> "1", real_time |-> TRUE],
       [line |-> "1", destination |-> "Fridhemsplan",
        expected_time |-> now + 12, direction |-> "1", real_time |-> FALSE],
       [line |-> "1", destination |-> "Stora Essingen",
        expected_time |-> now + 12, direction |-> "2", real_time |-> TRUE],
       [line |-> "1", destination |-> "Stora Essingen",
        expected_time |-> now + 22, direction |-> "2", real_time |-> FALSE] >>

\* the list mock_departures of get_mock_data; times are minutes after now
mock_departures(now) ==
    << [line |-> "1", destination |-> "Fridhemsplan",
        expected_time |-> now + 4, direction |-> "1", real_time |-> TRUE],
       [line |-> "1", destination |-> "Fridhemsplan",
        expected_time |-> now + 9, direction |-> "1", real_time |-> FALSE],
       [line |-> "1", destination |-> "Stora Essingen",
        expected_time |-> now + 12, direction |-> "2", real_time |-> TRUE],
       [line |-> "1", destination |-> "Stora Essingen",
        expected_time |-> now + 22, direction |-> "2", real_time |-> FALSE] >>

get_mock_data(now) ==
    [departures |-> mock_departures(now),
     departures_by_destination |->
        [d \in {"Fridhemsplan", "Stora Essingen"} |->
            SelectSeq(mock_departures(now), LAMBDA dep : dep.destination = d)],
     last_updated |-> now,
     error |-> MockError,
     source |-> "mock_data"]

\* variant of ProcessingRaises that notices a bad record only at the head of
\* the payload
ProcessingRaisesAtHead(data) ==
    /\ data # <<>>
    /\ \/ data[1].kind # "dict"
       \/ data[1].line = bus_line /\ data[1].destination = NonString

\* the exceptions of the try block: dep.get on a record that is no dict
\* (line 122), .lower() on a destination that is no string (line 152)
ProcessingRaises(data) ==
    \/ \E i \in DOMAIN data : data[i].kind # "dict"
    \/ \E i \in DOMAIN data :
          data[i].line = bus_line /\ data[i].destination = NonString

process_departure_data(data, now) ==
    IF ProcessingRaises(data)
    THEN get_mock_data(now)
    ELSE LET all_departures == SortDepartures(AllDepartures(data))
         IN  [departures |-> FinalDepartures(all_departures),
              departures_by_destination |-> GroupByDestination(all_departures),
              last_updated |-> now,
              error |-> NoError,
              source |-> "real_api"]

(***************************************************************************)
(* State.                                                                  *)
(***************************************************************************)
VARIABLES
    bus_data_cache,       \* the global dict
    active_connections,   \* manager.active_connections, a list of websockets
    pc,                   \* the await each task is suspended at
    src,                  \* fetch_departures: index of the source being requested
    attempts,             \* fetch_departures: the requests of the call that have ended
    new_data,             \* the task's local new_data / initial_data
    bc,                   \* manager.broadcast: the for loop of each caller
    cancel,               \* task.cancel() of lifespan on the update_bus_data task
    wpc,                  \* the await each websocket_endpoint is suspended at
    wmsg,                 \* the json.dumps(bus_data_cache) a new websocket is being sent
    alive,                \* whether the client of a websocket is still there
    clock,                \* datetime.now()
    raw,                  \* the provider's payload, when it is fixed beforehand
    client                \* what each websocket's client was sent, when it is kept on record

vars == <<bus_data_cache, active_connections, pc, src, attempts, new_data, bc,
          cancel, wpc, wmsg, alive, clock, raw, client>>

Tasks == {"lifespan", "periodic", "manual"}
Broadcasters == {"periodic", "manual"}
WebSockets == 1..NumWS

\* last_updated: None
NoUpdate == -1
\* no snapshot held
NoData == [source |-> "none"]

\* the direct API, then CORS_PROXIES in list order
CORS_PROXIES == <<"allorigins", "cors-anywhere", "codetabs">>
SourceOrder == <<"direct">> \o CORS_PROXIES

\* how a request can end: an exception of client.get, a status other than 200,
\* a body that response.json() / json.loads rejects, or parsed data
FailKinds == {"exception", "non200", "badjson"}
Failures(kinds) == {[kind |-> k, data |-> <<>>] : k \in kinds}
Successes(payloads) == {[kind |-> "ok", data |-> p] : p \in payloads}

\* payloads the provider answers with while the whole application runs
SysPayloads ==
    { << [kind |-> "dict", line |-> bus_line, destination |-> "Fridhemsplan",
          expected |-> 1, planned |-> NoTime, direction |-> "1"],
         [kind |-> "dict", line |-> bus_line, destination |-> "STORA ESSINGEN",
          expected |-> 2, planned |-> NoTime, direction |-> "1"] >>,
      << [kind |-> "scalar", line |-> "", destination |-> Missing,
          expected |-> NoTime, planned |-> NoTime, direction |-> ""] >> }

\* dict.update
Update(cache, data) ==
    [k \in DOMAIN cache \cup DOMAIN data |->
        IF k \in DOMAIN data THEN data[k] ELSE cache[k]]

\* list.remove of an element that is in the list
Remove(list, x) ==
    LET i == CHOOSE j \in DOMAIN list :
                 list[j] = x /\ \A k \in 1..(j - 1) : list[k] # x
    IN  SubSeq(list, 1, i - 1) \o SubSeq(list, i + 1, Len(list))

\* no record is kept of what the clients are sent
Unobserved == <<>>

\* the record of a client that has been sent nothing
NoReceipt == [received |-> NoData, before |-> FALSE]

\* send_text(message) is called on websocket w while its client is there:
\* message is the last one the client has been sent
Handed(w, message) ==
    IF client = Unobserved THEN client
    ELSE [client EXCEPT ![w] = [@ EXCEPT !.received = message]]

\* a cycle of task t starts: unless the other task's cycle is still going on,
\* the websockets registered now are those registered before the last cycles
CycleStarts(t) ==
    IF client = Unobserved \/ \E u \in Broadcasters \ {t} : pc[u] \in {"get", "send"}
    THEN client
    ELSE [w \in WebSockets |->
             [client[w] EXCEPT !.before = w \in Range(active_connections)]]

\* the loop state of a broadcast that has not started
IdleBroadcast ==
    [idx |-> 0, conn |-> 0, start |-> <<>>, recv |-> [w \in WebSockets |-> 0],
     failed |-> {}, left |-> {}, changed |-> FALSE, done |-> FALSE]

Init ==
    /\ bus_data_cache = [departures |-> <<>>, departures_by_destination |-> <<>>,
                         last_updated |-> NoUpdate, error |-> NoError]
    /\ active_connections = <<>>
    /\ pc = [t \in Tasks |-> IF t = "manual" THEN "idle" ELSE "get"]
    /\ src = [t \in Tasks |-> 1]
    /\ attempts = [t \in Tasks |-> <<>>]
    /\ new_data = [t \in Tasks |-> NoData]
    /\ bc = [t \in Broadcasters |-> IdleBroadcast]
    /\ cancel = "none"
    /\ wpc = [w \in WebSockets |-> "new"]
    /\ wmsg = [w \in WebSockets |-> NoData]
    /\ alive = [w \in WebSockets |-> TRUE]
    /\ clock = 0
    /\ raw = <<>>
    /\ client = Unobserved

(***************************************************************************)
(* ConnectionManager.broadcast.  The for statement walks the list by an    *)
(* index (idx items taken so far); the task is suspended at                *)
(* "await connection.send_text(message)" for bc.conn.  The other fields     *)
(* record what the broadcast saw and did: start, the list when it began;   *)
(* recv, how often each websocket got its message; failed, the websockets  *)
(* whose send raised; left, the websockets someone else unregistered while *)
(* it ran; changed, whether someone else registered or unregistered a      *)
(* websocket while it ran; done, whether it has returned.  The record of a *)
(* broadcast that has returned is kept until the list next changes or the  *)
(* task starts its next cycle.                                             *)
(***************************************************************************)
\* where a task goes when its cycle is over
AfterCycle(t) == IF t = "periodic" THEN "sleep" ELSE "idle"

\* a CancelledError is waiting to be thrown into the task at its await
CancelDue(t) == t = "periodic" /\ cancel = "requested"

\* the loop states of the broadcasts other than t's, after connections were
\* registered or unregistered (removed) by someone else
Others(t, removed, registered) ==
    [u \in Broadcasters |->
        IF u # t /\ (removed # {} \/ registered)
        THEN IF pc[u] = "send"
             THEN [bc[u] EXCEPT !.changed = TRUE, !.left = @ \cup removed]
             ELSE IdleBroadcast
        ELSE bc[u]]

\* the for statement takes the next item of the list, or the loop ends
LoopNext(t, conns, b, removed, message) ==
    IF b.idx < Len(conns)
    THEN /\ bc' = [Others(t, removed, FALSE) EXCEPT
                     ![t] = [b EXCEPT !.idx = @ + 1, !.conn = conns[b.idx + 1]]]
         /\ pc' = [pc EXCEPT ![t] = "send"]
         /\ client' = IF alive[conns[b.idx + 1]]
                      THEN Handed(conns[b.idx + 1], message) ELSE client
    ELSE /\ bc' = [Others(t, removed, FALSE) EXCEPT
                     ![t] = [b EXCEPT !.conn = 0, !.done = TRUE]]
         /\ pc' = [pc EXCEPT ![t] = AfterCycle(t)]
         /\ UNCHANGED client

\* the task's new_data once the step is over: the local is gone when the
\* cycle has ended
LocalAfter(t, result) ==
    [new_data EXCEPT ![t] = IF pc'[t] = "send" THEN result ELSE NoData]

\* variant of SendResume whose except clause leaves the connection in the list
SendResumeKeepsFailed(t, raised, delivered) ==
    LET b == bc[t]
        c == b.conn
        b1 == [b EXCEPT !.recv[c] = IF delivered THEN @ + 1 ELSE @,
                        !.failed = IF raised THEN @ \cup {c} ELSE @]
    IN  /\ active_connections' = active_connections
        /\ LoopNext(t, active_connections, b1, {}, new_data[t])
        /\ new_data' = LocalAfter(t, new_data[t])

\* the await of send_text ends: normally, or by an exception that the bare
\* except catches (the connection is removed if it is still in the list)
SendResume(t, raised, delivered) ==
    LET b == bc[t]
        c == b.conn
        removed == IF raised /\ c \in Range(active_connections) THEN {c} ELSE {}
        conns == IF removed # {} THEN Remove(active_connections, c)
                 ELSE active_connections
        b1 == [b EXCEPT !.recv[c] = IF delivered THEN @ + 1 ELSE @,
                        !.failed = IF raised THEN @ \cup {c} ELSE @]
    IN  /\ active_connections' = conns
        /\ LoopNext(t, conns, b1, removed, new_data[t])
        /\ new_data' = LocalAfter(t, new_data[t])

\* a send of the broadcast of task t completes or fails
BroadcastSend(t) ==
    /\ pc[t] = "send"
    /\ ~CancelDue(t)
    /\ SendResume(t, ~alive[bc[t].conn], alive[bc[t].conn])
    /\ UNCHANGED <<bus_data_cache, src, attempts, cancel, wpc, wmsg,
                   alive, clock, raw>>

(***************************************************************************)
(* BusDataFetcher.fetch_departures with its callers: update_bus_data       *)
(* (periodic), refresh_task (manual) and lifespan's initial fetch.         *)
(***************************************************************************)
\* variant of NextSource that passes over the first proxy
NextSourceSkipsProxy(i) == IF i = 1 THEN 3 ELSE i + 1

\* the source requested after source number i has failed
NextSource(i) == i + 1

\* variant of MoreSources that gives up before the last proxy
MoreSourcesButLast(i) == i < Len(SourceOrder) - 1

\* "for proxy in CORS_PROXIES": there is a source after source number i
MoreSources(i) == i < Len(SourceOrder)

\* what follows "new_data = await bus_fetcher.fetch_departures()" up to the
\* next await; raises: an exception escapes after the cache update; traced:
\* the result and the requests of the call stay on record in new_data and
\* attempts after the call
Publish(t, result, raises, traced) ==
    LET updated == Update(bus_data_cache, result)
    IN  IF t = "lifespan"
        THEN /\ bus_data_cache' = updated
             /\ pc' = [pc EXCEPT ![t] = "serving"]
             /\ new_data' = [new_data EXCEPT ![t] = IF traced THEN result ELSE NoData]
             /\ UNCHANGED <<active_connections, bc, client>>
        ELSE IF raises
        THEN /\ bus_data_cache' = [updated EXCEPT !.error = ExcText]
             /\ pc' = [pc EXCEPT ![t] = "sleep"]
             /\ new_data' = [new_data EXCEPT ![t] = NoData]
             /\ UNCHANGED <<active_connections, bc, client>>
        ELSE /\ bus_data_cache' = updated
             /\ UNCHANGED active_connections
             /\ LoopNext(t, active_connections,
                         [IdleBroadcast EXCEPT !.start = active_connections], {},
                         result)
             /\ new_data' = LocalAfter(t, result)

\* fetch_departures returns result to its caller
Return(t, result, log, raises, traced) ==
    /\ attempts' = [attempts EXCEPT ![t] = IF traced THEN log ELSE <<>>]
    /\ Publish(t, result, raises, traced)
    /\ UNCHANGED src

\* the request to the current source ends with outcome o
FetchOutcome(t, o, raises, traced) ==
    LET log == Append(attempts[t], [source |-> SourceOrder[src[t]],
                                    outcome |-> o.kind, data |-> o.data])
    IN  IF o.kind = "ok"
        THEN Return(t, process_departure_data(o.data, clock), log, raises, traced)
        ELSE IF MoreSources(src[t])
        THEN /\ ~raises
             /\ attempts' = [attempts EXCEPT ![t] = log]
             /\ src' = [src EXCEPT ![t] = NextSource(@)]
             /\ UNCHANGED <<bus_data_cache, active_connections, pc, new_data, bc,
                            client>>
        ELSE Return(t, get_mock_data(clock), log, raises, traced)

\* how the request in flight can end: once lifespan's shutdown has closed
\* the client, it raises
OutcomesNow(outcomes) ==
    IF pc["lifespan"] = "shutdown" THEN Failures({"exception"}) ELSE outcomes

FetchStep(t, outcomes, traced) ==
    /\ pc[t] = "get"
    /\ ~CancelDue(t)
    /\ \E o \in OutcomesNow(outcomes), raises \in {FALSE, t = "periodic"} :
          FetchOutcome(t, o, raises, traced)
    /\ UNCHANGED <<cancel, wpc, wmsg, alive, clock, raw>>

\* variant of FetchRaises without the handler inside the loop: the exception
\* ends the task
FetchRaisesEndsTask ==
    /\ pc["periodic"] = "get"
    /\ ~CancelDue("periodic")
    /\ pc' = [pc EXCEPT !["periodic"] = "done"]
    /\ UNCHANGED <<bus_data_cache, active_connections, src, attempts, new_data,
                   bc, cancel, wpc, wmsg, alive, clock, raw, client>>

\* update_bus_data: an exception escapes fetch_departures; the handler
\* stores its text and the loop goes on to the sleep
FetchRaises ==
    /\ pc["periodic"] = "get"
    /\ ~CancelDue("periodic")
    /\ bus_data_cache' = [bus_data_cache EXCEPT !.error = ExcText]
    /\ pc' = [pc EXCEPT !["periodic"] = "sleep"]
    /\ UNCHANGED <<active_connections, src, attempts, new_data, bc, cancel, wpc,
                   wmsg, alive, clock, raw, client>>

\* the task starts fetch_departures and is suspended at the first request
StartFetch(t) ==
    /\ pc' = [pc EXCEPT ![t] = "get"]
    /\ bc' = [u \in Broadcasters |-> IF u = t THEN IdleBroadcast ELSE bc[u]]
    /\ src' = [src EXCEPT ![t] = 1]
    /\ attempts' = [attempts EXCEPT ![t] = <<>>]
    /\ new_data' = [new_data EXCEPT ![t] = NoData]
    /\ client' = CycleStarts(t)

\* variant of SleepDone in which the sleep does not end while a manual
\* refresh is running
SleepDoneAfterManual ==
    /\ pc["periodic"] = "sleep"
    /\ pc["manual"] = "idle"
    /\ ~CancelDue("periodic")
    /\ StartFetch("periodic")
    /\ UNCHANGED <<bus_data_cache, active_connections, cancel, wpc, wmsg,
                   alive, clock, raw>>

\* update_bus_data: asyncio.sleep(refresh_interval) is over
SleepDone ==
    /\ pc["periodic"] = "sleep"
    /\ ~CancelDue("periodic")
    /\ StartFetch("periodic")
    /\ UNCHANGED <<bus_data_cache, active_connections, cancel, wpc, wmsg,
                   alive, clock, raw>>

\* POST /api/refresh: refresh_task is started as a background task
refresh_departures ==
    /\ pc["lifespan"] = "serving"
    /\ pc["manual"] = "idle"
    /\ StartFetch("manual")
    /\ UNCHANGED <<bus_data_cache, active_connections, cancel, wpc, wmsg,
                   alive, clock, raw>>

(***************************************************************************)
(* lifespan's shutdown and the cancellation of the update_bus_data task.   *)
(***************************************************************************)
\* task.cancel(); await bus_fetcher.client.aclose()
Shutdown ==
    /\ pc["lifespan"] = "serving"
    /\ pc' = [pc EXCEPT !["lifespan"] = "shutdown"]
    /\ cancel' = "requested"
    /\ UNCHANGED <<bus_data_cache, active_connections, src, attempts, new_data,
                   bc, wpc, wmsg, alive, clock, raw, client>>

\* CancelledError is thrown into update_bus_data at the await it is at.  It
\* is no Exception, so the handlers of fetch_departures and of the loop let it
\* pass; the bare except of broadcast catches it.
CancelDelivered ==
    /\ cancel = "requested"
    /\ cancel' = "delivered"
    /\ IF pc["periodic"] = "send"
       THEN \E delivered \in BOOLEAN : SendResume("periodic", TRUE, delivered)
       ELSE /\ pc' = [pc EXCEPT !["periodic"] = "done"]
            /\ new_data' = [new_data EXCEPT !["periodic"] = NoData]
            /\ UNCHANGED <<active_connections, bc, client>>
    /\ UNCHANGED <<bus_data_cache, src, attempts, wpc, wmsg, alive, clock, raw>>

(***************************************************************************)
(* websocket_endpoint with ConnectionManager.connect and disconnect.       *)
(***************************************************************************)
\* variant of WsConnect that registers the websocket without handing it the
\* current bus_data_cache as its first message
WsConnectWithoutSnapshot(w) ==
    /\ pc["lifespan"] = "serving"
    /\ wpc[w] = "new"
    /\ \A v \in 1..(w - 1) : wpc[v] # "new"
    /\ active_connections' = Append(active_connections, w)
    /\ wmsg' = [wmsg EXCEPT ![w] = [departures |-> <<>>,
                                    departures_by_destination |-> <<>>,
                                    last_updated |-> NoUpdate,
                                    error |-> NoError]]
    /\ wpc' = [wpc EXCEPT ![w] = "initial"]
    /\ client' = Handed(w, wmsg'[w])
    /\ bc' = Others("none", {}, TRUE)
    /\ UNCHANGED <<bus_data_cache, pc, src, attempts, new_data, cancel, alive,
                   clock, raw>>

\* a client opens /ws and websocket.accept() returns: the websocket is
\* appended, and the handler awaits the send of json.dumps(bus_data_cache).
\* Clients are numbered in the order in which they are accepted.
WsConnect(w) ==
    /\ pc["lifespan"] = "serving"
    /\ wpc[w] = "new"
    /\ \A v \in 1..(w - 1) : wpc[v] # "new"
    /\ active_connections' = Append(active_connections, w)
    /\ wmsg' = [wmsg EXCEPT ![w] = bus_data_cache]
    /\ wpc' = [wpc EXCEPT ![w] = "initial"]
    /\ client' = Handed(w, wmsg'[w])
    /\ bc' = Others("none", {}, TRUE)
    /\ UNCHANGED <<bus_data_cache, pc, src, attempts, new_data, cancel, alive,
                   clock, raw>>

\* the initial send ends; an exception of it leaves the handler
WsInitialSent(w) ==
    /\ wpc[w] = "initial"
    /\ wpc' = [wpc EXCEPT ![w] = IF alive[w] THEN "receive" ELSE "crashed"]
    /\ wmsg' = [wmsg EXCEPT ![w] = NoData]
    /\ UNCHANGED <<bus_data_cache, active_connections, pc, src, attempts,
                   new_data, bc, cancel, alive, clock, raw, client>>

\* receive_text returns "ping" and the handler sends "pong": the send ends
\* and the handler is back at receive_text, or the client goes away during
\* the send and its exception leaves the handler
WsPing(w) ==
    /\ wpc[w] = "receive"
    /\ alive[w]
    /\ \E sent \in BOOLEAN :
          /\ wpc' = [wpc EXCEPT ![w] = IF sent THEN "receive" ELSE "crashed"]
          /\ alive' = [alive EXCEPT ![w] = sent]
    /\ UNCHANGED <<bus_data_cache, active_connections, pc, src, attempts,
                   new_data, bc, cancel, wmsg, clock, raw, client>>

\* receive_text raises WebSocketDisconnect: manager.disconnect, whose
\* list.remove raises ValueError when the websocket is no longer in the list
WsDisconnect(w) ==
    /\ wpc[w] = "receive"
    /\ ~alive[w]
    /\ IF w \in Range(active_connections)
       THEN /\ active_connections' = Remove(active_connections, w)
            /\ bc' = Others("none", {w}, FALSE)
            /\ wpc' = [wpc EXCEPT ![w] = "closed"]
       ELSE /\ wpc' = [wpc EXCEPT ![w] = "crashed"]
            /\ UNCHANGED <<active_connections, bc>>
    /\ UNCHANGED <<bus_data_cache, pc, src, attempts, new_data, cancel, wmsg,
                   alive, clock, raw, client>>

\* the client of an accepted websocket goes away
ClientClose(w) ==
    /\ wpc[w] \in {"initial", "receive"}
    /\ alive[w]
    /\ alive' = [alive EXCEPT ![w] = FALSE]
    /\ UNCHANGED <<bus_data_cache, active_connections, pc, src, attempts,
                   new_data, bc, cancel, wpc, wmsg, clock, raw, client>>

\* time passes
Tick ==
    /\ clock < MaxClock
    /\ clock' = clock + 1
    /\ UNCHANGED <<bus_data_cache, active_connections, pc, src, attempts,
                   new_data, bc, cancel, wpc, wmsg, alive, raw, client>>

(***************************************************************************)
(* The application.                                                        *)
(***************************************************************************)
\* while the application serves, the direct API answers
SysOutcomes == Successes(SysPayloads)

Fetching == \E t \in Tasks : FetchStep(t, SysOutcomes, FALSE)

Broadcasting == \E t \in Broadcasters : BroadcastSend(t)

WebSocketStep ==
    \E w \in WebSockets :
        \/ WsConnect(w)
        \/ WsInitialSent(w)
        \/ WsPing(w)
        \/ WsDisconnect(w)
        \/ ClientClose(w)

\* what happens while the application serves, before lifespan's shutdown
Serving ==
    \/ Fetching
    \/ FetchRaises
    \/ Broadcasting
    \/ SleepDone
    \/ refresh_departures
    \/ WebSocketStep

Next ==
    \/ Serving
    \/ Shutdown
    \/ CancelDelivered

Spec == Init /\ [][Next]_vars

(***************************************************************************)
(* The application for as long as no shutdown is requested, under the      *)
(* scheduling of the asyncio event loop: a task whose await has ended is   *)
(* resumed, and the awaits of update_bus_data end (the requests by the     *)
(* client's timeout, the sends, the sleep).                                *)
(***************************************************************************)
PeriodicStep ==
    \/ FetchStep("periodic", SysOutcomes, FALSE)
    \/ FetchRaises
    \/ BroadcastSend("periodic")
    \/ SleepDone

SpecFair == Init /\ [][Serving]_vars /\ WF_vars(PeriodicStep)

(***************************************************************************)
(* The application for as long as no shutdown is requested, with what the  *)
(* clients are sent kept on record.                                        *)
(***************************************************************************)
InitObserved ==
    /\ bus_data_cache = [departures |-> <<>>, departures_by_destination |-> <<>>,
                         last_updated |-> NoUpdate, error |-> NoError]
    /\ active_connections = <<>>
    /\ pc = [t \in Tasks |-> IF t = "manual" THEN "idle" ELSE "get"]
    /\ src = [t \in Tasks |-> 1]
    /\ attempts = [t \in Tasks |-> <<>>]
    /\ new_data = [t \in Tasks |-> NoData]
    /\ bc = [t \in Broadcasters |-> IdleBroadcast]
    /\ cancel = "none"
    /\ wpc = [w \in WebSockets |-> "new"]
    /\ wmsg = [w \in WebSockets |-> NoData]
    /\ alive = [w \in WebSockets |-> TRUE]
    /\ clock = 0
    /\ raw = <<>>
    /\ client = [w \in WebSockets |-> NoReceipt]

SpecObserved == InitObserved /\ [][Serving]_vars

(***************************************************************************)
(* One call of fetch_departures (lifespan's initial fetch) with every way  *)
(* the requests can end, its requests kept on record.                      *)
(***************************************************************************)
AllOutcomes == Failures(FailKinds) \cup Successes(SysPayloads)

InitialFetch == FetchStep("lifespan", AllOutcomes, TRUE)

NextFetch == InitialFetch \/ Tick

SpecFetch == Init /\ [][NextFetch]_vars

(***************************************************************************)
(* process_departure_data on every payload up to MaxLen records: lifespan's *)
(* initial fetch when the direct API answers with the payload raw.         *)
(***************************************************************************)
InitNorm ==
    /\ bus_data_cache = [departures |-> <<>>, departures_by_destination |-> <<>>,
                         last_updated |-> NoUpdate, error |-> NoError]
    /\ active_connections = <<>>
    /\ pc = [t \in Tasks |-> IF t = "manual" THEN "idle" ELSE "get"]
    /\ src = [t \in Tasks |-> 1]
    /\ attempts = [t \in Tasks |-> <<>>]
    /\ new_data = [t \in Tasks |-> NoData]
    /\ bc = [t \in Broadcasters |-> IdleBroadcast]
    /\ cancel = "none"
    /\ wpc = [w \in WebSockets |-> "new"]
    /\ wmsg = [w \in WebSockets |-> NoData]
    /\ alive = [w \in WebSockets |-> TRUE]
    /\ clock \in 0..MaxClock
    /\ raw \in Payloads
    /\ client = Unobserved

NormalizeAnswer == FetchStep("lifespan", Successes({raw}), TRUE)

SpecNorm == InitNorm /\ [][NormalizeAnswer]_vars

(***************************************************************************)
(* Claims.                                                                 *)
(***************************************************************************)
\* the subscribers a finished broadcast found registered and did not see fail
Unfailed(b) == Range(b.start) \ b.failed

\* C1: when a broadcast over N registered subscribers has returned, nobody
\* else registered or unregistered a subscriber meanwhile (and no shutdown
\* cancelled a send), and the push to exactly one subscriber k failed, then
\* exactly the other N-1 subscribers are in active_connections and each of
\* them received the message exactly once.
C1_OneFailureOthersReceive ==
    \A t \in Broadcasters :
        (/\ cancel = "none"
         /\ bc[t].done
         /\ ~bc[t].changed
         /\ Cardinality(bc[t].failed) = 1)
        => /\ Range(active_connections) = Unfailed(bc[t])
           /\ \A w \in Unfailed(bc[t]) : bc[t].recv[w] = 1

\* C2: connect and disconnect are safe during a broadcast: when a broadcast
\* that unregistered nobody itself has returned, every subscriber that was
\* registered when it started, was not unregistered while it ran and whose
\* send did not fail has received its message exactly once.
C2_ConcurrentRegistrySafe ==
    \A t \in Broadcasters :
        (cancel = "none" /\ bc[t].done /\ bc[t].failed \subseteq bc[t].left)
        => \A w \in Range(bc[t].start) \ (bc[t].left \cup bc[t].failed) :
              bc[t].recv[w] = 1

\* every result a fetch_departures call can return
FetchResults ==
    {process_departure_data(p, now) : p \in SysPayloads, now \in 0..MaxClock}
    \cup {get_mock_data(now) : now \in 0..MaxClock}

\* C3: once a refresh result has been stored, what a reader gets from
\* bus_data_cache (GET /api/departures, the initial send of a websocket) is in
\* all five fields the complete result of one fetch_departures call.
C3_CacheIsOneFetchResult ==
    /\ "source" \in DOMAIN bus_data_cache => bus_data_cache \in FetchResults
    /\ \A w \in WebSockets :
          (wpc[w] = "initial" /\ "source" \in DOMAIN wmsg[w])
          => wmsg[w] \in FetchResults

\* C4: after lifespan's shutdown has cancelled the update_bus_data task, the
\* task starts no further refresh cycle, whichever await it was suspended at.
C4_NoCycleAfterCancel ==
    [][cancel # "none" =>
         ~(pc["periodic"] # "get" /\ pc'["periodic"] = "get")]_vars

\* C5: a failure in a stage of a periodic cycle never terminates
\* update_bus_data: as long as no cancellation is requested the task is never
\* over, and it is at its sleep and at the start of a cycle again and again.
C5_CyclesGoOn ==
    /\ [](cancel = "none" => pc["periodic"] # "done")
    /\ []<>(cancel # "none" \/ pc["periodic"] = "sleep")
    /\ []<>(cancel # "none" \/ (pc["periodic"] = "get" /\ src["periodic"] = 1))

\* C5 witness: a cycle has failed, its handler has stored the exception text,
\* and the next cycle has started
C5_Witness ==
    /\ cancel = "none"
    /\ bus_data_cache.error = ExcText
    /\ pc["periodic"] = "get"

\* the requests of the call of task t have all failed
AllFailed(t) == \A i \in DOMAIN attempts[t] : attempts[t][i].outcome # "ok"

\* C6: fetch_departures requests the direct API, then CORS_PROXIES[0], [1],
\* [2] in this order; a source is requested only after every earlier one has
\* failed, and after a source has succeeded no source is requested: when the
\* direct API succeeds, no proxy is requested.
C6_SourcesInOrder ==
    \A t \in Tasks :
        LET n == Len(attempts[t])
        IN  /\ n <= Len(SourceOrder)
            /\ \A i \in 1..n : attempts[t][i].source = SourceOrder[i]
            /\ \A i \in 1..(n - 1) : attempts[t][i].outcome # "ok"
            /\ pc[t] = "get" => (src[t] = n + 1 /\ AllFailed(t))
            /\ (n > 0 /\ attempts[t][1].outcome = "ok") => (n = 1 /\ pc[t] # "get")

\* C6 witness: the direct API failed, the first proxy answered, and the call
\* has returned
C6_Witness ==
    /\ pc["lifespan"] = "serving"
    /\ Len(attempts["lifespan"]) = 2
    /\ attempts["lifespan"][2].outcome = "ok"

\* every real source was requested in the call of task t, and each failed
Exhausted(t) ==
    /\ {attempts[t][i].source : i \in DOMAIN attempts[t]} = Range(SourceOrder)
    /\ AllFailed(t)

\* C7 as stated: a result with source mock_data is returned only if every
\* real source was requested during the call and each of them failed.
C7_MockOnlyIfExhausted ==
    \A t \in Tasks :
        new_data[t].source = "mock_data" => Exhausted(t)

\* C7 as amended: a result with source mock_data is returned only if every
\* real source was requested and failed, or the source that answered gave a
\* payload on which process_departure_data raised.
C7_MockOnlyIfExhaustedOrUnprocessable ==
    \A t \in Tasks :
        new_data[t].source = "mock_data"
        => \/ Exhausted(t)
           \/ LET last == attempts[t][Len(attempts[t])]
              IN  last.outcome = "ok" /\ ProcessingRaises(last.data)

\* C7 witness: all four sources failed and the synthetic result was returned
C7_Witness ==
    /\ new_data["lifespan"].source = "mock_data"
    /\ Exhausted("lifespan")

\* C8: if the direct API and every proxy fail, by exception or status in any
\* combination, fetch_departures returns source mock_data, an error, and the
\* fixed content: line 1 to Fridhemsplan at now+4 and now+9, to Stora
\* Essingen at now+12 and now+22, two in each destination group.
C8_SyntheticWhenExhausted ==
    \A t \in Tasks :
        (pc[t] # "get" /\ Exhausted(t))
        => LET r == new_data[t]
               now == r.last_updated
               d == r.departures
               g == r.departures_by_destination
           IN  /\ r.source = "mock_data"
               /\ r.error # NoError
               /\ Len(d) = 4
               /\ \A i \in 1..4 : d[i].line = "1"
               /\ <<d[1].destination, d[1].expected_time>> = <<"Fridhemsplan", now + 4>>
               /\ <<d[2].destination, d[2].expected_time>> = <<"Fridhemsplan", now + 9>>
               /\ <<d[3].destination, d[3].expected_time>> = <<"Stora Essingen", now + 12>>
               /\ <<d[4].destination, d[4].expected_time>> = <<"Stora Essingen", now + 22>>
               /\ DOMAIN g = {"Fridhemsplan", "Stora Essingen"}
               /\ g["Fridhemsplan"] = <<d[1], d[2]>>
               /\ g["Stora Essingen"] = <<d[3], d[4]>>

\* C8 witness: the four requests failed, some by exception and some by
\* status, and the call has returned
C8_Witness ==
    /\ pc["lifespan"] = "serving"
    /\ Exhausted("lifespan")
    /\ {"exception", "non200"} \subseteq
          {attempts["lifespan"][i].outcome : i \in DOMAIN attempts["lifespan"]}

\* x is not after y in arrival-time order, records without a time last
TimeOrdered(x, y) ==
    \/ y.expected_time = NoTime
    \/ x.expected_time # NoTime /\ x.expected_time <= y.expected_time

\* C9: the departures list of the snapshot returned for a payload is in
\* non-decreasing expected_time order, with every record that has no time
\* after all timed records.
C9_DeparturesSorted ==
    new_data["lifespan"] # NoData
    => LET d == new_data["lifespan"].departures
       IN  \A i, j \in DOMAIN d : i < j => TimeOrdered(d[i], d[j])

\* the lists of a snapshot's departures_by_destination are within the cap
GroupsCapped(snapshot) ==
    \A k \in DOMAIN snapshot.departures_by_destination :
        Len(snapshot.departures_by_destination[k]) <= departures_per_destination

\* C10: for every payload, on the live and on the synthetic path, every list
\* of departures_by_destination of the returned snapshot, and so of the
\* snapshot held in bus_data_cache, has at most departures_per_destination
\* entries.
C10_GroupsWithinCap ==
    /\ new_data["lifespan"] # NoData => GroupsCapped(new_data["lifespan"])
    /\ GroupsCapped(bus_data_cache)
    /\ GroupsCapped(get_mock_data(clock))

\* C10 witness: the payload has three line-1 departures to Fridhemsplan, and
\* the snapshot that was returned and stored holds two of them in the group
C10_Witness ==
    /\ Len(SelectSeq(raw, LAMBDA dep : dep.line = bus_line
                                       /\ dep.destination = "Fridhemsplan")) = 3
    /\ "source" \in DOMAIN bus_data_cache
    /\ bus_data_cache.source = "real_api"
    /\ Len(bus_data_cache.departures_by_destination["Fridhemsplan"]) = 2
    /\ new_data["lifespan"].departures_by_destination
         = bus_data_cache.departures_by_destination

(***************************************************************************)
(* Claims about the result of process_departure_data for the payload raw   *)
(* (SpecNorm): new_data["lifespan"] once the initial fetch has returned.   *)
(***************************************************************************)
\* the identities of the records of a list
Ids(list) == {list[i].id : i \in DOMAIN list}

\* the initial fetch has returned a snapshot built from the payload
LiveResult ==
    /\ pc["lifespan"] = "serving"
    /\ new_data["lifespan"].source = "real_api"

\* the capped groups of a snapshot, concatenated in target_destinations order
CappedGroups(snapshot) ==
    snapshot.departures_by_destination["Fridhemsplan"]
        \o snapshot.departures_by_destination["Stora Essingen"]

\* C11: when the capped groups together hold c < 4 records, exactly
\* min(4 - c, r) records follow them in departures, r being the number of
\* filtered line-1 records (each provider record counted for itself, equal
\* field values or not) that are in no group, and they are the earliest of
\* these in sorted order; when c >= 4, none follows.
C11_BackfillCount ==
    LiveResult
    => LET d == new_data["lifespan"].departures
           capped == CappedGroups(new_data["lifespan"])
           c == Len(capped)
           pool == SelectSeq(SortDepartures(AllDepartures(raw)),
                             LAMBDA dep : dep.id \notin Ids(capped))
           n == IF c < MinDepartures THEN Min(MinDepartures - c, Len(pool)) ELSE 0
       IN  SubSeq(d, c + 1, Len(d)) = SubSeq(pool, 1, n)

\* x comes before y in arrival-time order: by time, a record without a time
\* after every timed one, and provider order among equal or absent times
ArrivesBefore(x, y) ==
    IF x.expected_time = y.expected_time THEN x.id < y.id
    ELSE IF x.expected_time = NoTime THEN FALSE
    ELSE IF y.expected_time = NoTime THEN TRUE
    ELSE x.expected_time < y.expected_time

\* C12: each list of departures_by_destination holds the earliest records of
\* its group in arrival-time order: along the list expected_time does not
\* decrease, a record without a time is after every timed one, ties are in
\* provider order, and every record of the group that is left out comes after
\* all records of a full list.
C12_GroupsEarliestInOrder ==
    LiveResult
    => \A target_dest \in Range(target_destinations) :
          LET list == new_data["lifespan"].departures_by_destination[target_dest]
              group == SelectSeq(AllDepartures(raw),
                                 LAMBDA dep : MatchesDestination(target_dest, dep))
          IN  /\ \A i, j \in DOMAIN list : i < j => ArrivesBefore(list[i], list[j])
              /\ \A k \in DOMAIN group :
                    group[k].id \notin Ids(list)
                    => /\ Len(list) = departures_per_destination
                       /\ \A i \in DOMAIN list : ArrivesBefore(list[i], group[k])

\* C16: grouping is a partition: no filtered record is in more than one list
\* of departures_by_destination, and no provider record occurs more than once
\* in departures.
C16_GroupingIsPartition ==
    LiveResult
    => LET d == new_data["lifespan"].departures
           g == new_data["lifespan"].departures_by_destination
       IN  /\ \A a, b \in DOMAIN g : a # b => Ids(g[a]) \cap Ids(g[b]) = {}
           /\ \A i, j \in DOMAIN d : i # j => d[i].id # d[j].id

\* the fixed synthetic content with now = the snapshot's last_updated: four
\* line-1 departures, two to each destination, and their two groups
IsSyntheticSnapshot(r) ==
    LET d == r.departures
        g == r.departures_by_destination
        now == r.last_updated
    IN  /\ r.source = "mock_data"
        /\ r.error # NoError
        /\ Len(d) = 4
        /\ \A i \in 1..4 : d[i].line = "1"
        /\ [i \in 1..4 |-> d[i].destination]
             = <<"Fridhemsplan", "Fridhemsplan", "Stora Essingen", "Stora Essingen">>
        /\ [i \in 1..4 |-> d[i].expected_time - now] = <<4, 9, 12, 22>>
        /\ DOMAIN g = {"Fridhemsplan", "Stora Essingen"}
        /\ g["Fridhemsplan"] = <<d[1], d[2]>>
        /\ g["Stora Essingen"] = <<d[3], d[4]>>

\* a record on which processing fails: one that is no JSON object, or a
\* line-1 record whose destination is no string
BadRecord(dep) ==
    \/ dep.kind # "dict"
    \/ dep.line = bus_line /\ dep.destination = NonString

\* C15: if processing of the payload fails at some record, at whatever
\* position, the snapshot returned (and stored) is the complete synthetic one:
\* source mock_data, an error, the four synthetic departures and their two
\* groups, and nothing else.
C15_FailureGivesSynthetic ==
    (pc["lifespan"] = "serving" /\ \E i \in DOMAIN raw : BadRecord(raw[i]))
    => /\ IsSyntheticSnapshot(new_data["lifespan"])
       /\ new_data["lifespan"].last_updated = clock
       /\ bus_data_cache = new_data["lifespan"]

\* C15 witness: two well-formed line-1 records are followed by a record that
\* is no JSON object, and the snapshot has been returned
C15_Witness ==
    /\ pc["lifespan"] = "serving"
    /\ Len(raw) = 3
    /\ \A i \in 1..2 : /\ raw[i].kind = "dict"
                       /\ raw[i].line = bus_line
                       /\ raw[i].destination = "Fridhemsplan"
    /\ raw[3].kind = "scalar"
    /\ new_data["lifespan"].source = "mock_data"

\* C19: in every result of process_departure_data and of get_mock_data,
\* departures starts with the Fridhemsplan list followed by the Stora Essingen
\* list of departures_by_destination (so every grouped record is in
\* departures), and has at most 4 entries.
C19_DeparturesStartWithGroups ==
    \A r \in {new_data["lifespan"], get_mock_data(clock)} :
        r # NoData
        => LET capped == CappedGroups(r)
           IN  /\ Len(capped) <= Len(r.departures)
               /\ SubSeq(r.departures, 1, Len(capped)) = capped
               /\ Len(r.departures) <= 4

\* C19 witness: a snapshot built from a payload with one record to each
\* destination and a third record that is in no group and was backfilled
C19_Witness ==
    /\ LiveResult
    /\ Len(new_data["lifespan"].departures_by_destination["Fridhemsplan"]) = 1
    /\ Len(new_data["lifespan"].departures_by_destination["Stora Essingen"]) = 1
    /\ Len(new_data["lifespan"].departures) = 3
    /\ Cardinality(Ids(new_data["lifespan"].departures)) = 3

(***************************************************************************)
(* Claims about the websocket registry and the refresh tasks (Spec).       *)
(***************************************************************************)
\* C17: when a failed push inside broadcast has removed a subscriber from
\* active_connections and its handler then observes the disconnect and calls
\* manager.disconnect, the call returns without an error (the handler ends
\* normally) and active_connections is unchanged.
C17_DisconnectToleratesRemoved ==
    [][\A w \in WebSockets :
          (/\ wpc[w] = "receive"
           /\ ~alive[w]
           /\ w \notin Range(active_connections)
           /\ \E t \in Broadcasters : w \in bc[t].failed
           /\ wpc'[w] # "receive")
          => /\ wpc'[w] = "closed"
             /\ active_connections' = active_connections]_vars

\* C14: the first message a new subscriber is sent is bus_data_cache as it is
\* at the moment of registration: the send of it is started in the step that
\* registers the websocket and its content stays what it was while the send
\* is pending, whatever the refresh cycles store meanwhile; and no broadcast
\* pushes to a websocket before that step.
C14_FirstMessageIsSnapshot ==
    /\ [](\A w \in WebSockets :
             wpc[w] = "new"
             => /\ w \notin Range(active_connections)
                /\ \A t \in Broadcasters : bc[t].conn # w /\ bc[t].recv[w] = 0)
    /\ [][\A w \in WebSockets :
             /\ (w \notin Range(active_connections)
                 /\ w \in Range(active_connections'))
                => /\ wpc[w] = "new" /\ wpc'[w] = "initial"
                   /\ wmsg'[w] = bus_data_cache
                   /\ bus_data_cache' = bus_data_cache
             /\ (wpc[w] = "initial" /\ wpc'[w] = "initial")
                => wmsg'[w] = wmsg[w]]_vars

\* C14 witness: a refresh cycle has replaced the cache and its broadcast is
\* pushing to a websocket whose first message, the snapshot of its
\* registration, is still being sent
C14_Witness ==
    \E w \in WebSockets, t \in Broadcasters :
        /\ wpc[w] = "initial"
        /\ wmsg[w] # bus_data_cache
        /\ pc[t] = "send"
        /\ bc[t].conn = w

(***************************************************************************)
(* Claims about the periodic task and its subscribers for as long as no    *)
(* shutdown is requested (SpecFair).                                       *)
(***************************************************************************)
\* C13: while update_bus_data sleeps, a manual refresh and its steps leave
\* the task in its sleep and the end of the sleep possible at every moment,
\* however often POST /api/refresh is made; the sleep ends by the start of
\* the next periodic cycle, which does happen; and the manual refresh does
\* its own fetch, cache update and broadcast.
C13_ManualRefreshLeavesTimer ==
    /\ [](pc["periodic"] = "sleep" => ENABLED SleepDone)
    /\ [][
          /\ (pc["periodic"] = "sleep" /\ pc'["periodic"] # "sleep")
             => /\ pc'["periodic"] = "get"
                /\ pc'["manual"] = pc["manual"]
                /\ bus_data_cache' = bus_data_cache
          /\ (pc["manual"] = "idle" /\ pc'["manual"] # "idle")
             => /\ pc'["manual"] = "get"
                /\ pc'["periodic"] = pc["periodic"]
                /\ bus_data_cache' = bus_data_cache
          /\ (pc["manual"] = "get" /\ pc'["manual"] # "get")
             => /\ \E o \in SysOutcomes :
                      bus_data_cache' =
                          Update(bus_data_cache,
                                 process_departure_data(o.data, clock))
                /\ bc'["manual"].start = active_connections
                /\ pc'["manual"] = IF active_connections = <<>>
                                   THEN "idle" ELSE "send"
                /\ pc'["periodic"] = pc["periodic"]
       ]_vars
    /\ (pc["periodic"] = "sleep" ~> pc["periodic"] = "get")

\* C13 witness: update_bus_data sleeps while a manual refresh, begun during
\* this sleep, has stored its own result and delivers it
C13_Witness ==
    /\ pc["periodic"] = "sleep"
    /\ bc["periodic"].done
    /\ pc["manual"] = "send"
    /\ \E w \in WebSockets : bc["manual"].recv[w] > 0

\* C20: if the cycles of update_bus_data go on reaching their broadcast, a
\* registered websocket whose client has gone away, so that every push to it
\* fails, is eventually no longer in active_connections, wherever it stands
\* in the list and whoever else in the list is gone too; and a websocket
\* enters the list only by its registration, so one that left it does not
\* come back.
C20_DeadSubscribersPruned ==
    /\ ([]<>(pc["periodic"] = "send" \/ bc["periodic"].done))
          => \A w \in WebSockets :
                (w \in Range(active_connections) /\ ~alive[w])
                   ~> w \notin Range(active_connections)
    /\ [][\A w \in WebSockets :
             (w \notin Range(active_connections)
              /\ w \in Range(active_connections'))
                => wpc[w] = "new" /\ wpc'[w] # "new"]_vars
    /\ [](\A w \in WebSockets :
             wpc[w] = "new" => alive[w] /\ w \notin Range(active_connections))

\* C20 witness: the clients of both websockets went away while their handlers
\* waited in receive_text; an earlier broadcast removed the first, and the
\* periodic cycle that found the second one alone in the list has removed it
C20_Witness ==
    /\ active_connections = <<>>
    /\ \A w \in WebSockets : wpc[w] = "receive" /\ ~alive[w]
    /\ bc["periodic"].start = <<NumWS>>
    /\ NumWS \in bc["periodic"].failed

(***************************************************************************)
(* Claims about what the clients are sent (SpecObserved).                  *)
(***************************************************************************)
\* no cycle of update_bus_data or of a refresh_task is in progress
NoCycleInProgress ==
    /\ pc["lifespan"] = "serving"
    /\ pc["periodic"] = "sleep"
    /\ pc["manual"] = "idle"

\* C18: whenever no refresh cycle is in progress, every websocket that has
\* been registered since before the last cycles started, whose client is
\* there (so that no push to it has failed) and whose initial send is over,
\* has been sent as its last message the snapshot now in bus_data_cache.
C18_SubscribersConverge ==
    \A w \in WebSockets :
        (/\ NoCycleInProgress
         /\ w \in Range(active_connections)
         /\ wpc[w] = "receive"
         /\ alive[w]
         /\ client[w].before)
        => client[w].received = bus_data_cache

====
